---- MODULE Spec2Model ----
(***************************************************************************)
(* Model of the two-colour Game of Life engine of src/src/life.rs (World,  *)
(* Loc, CellType) and of the way src/src/main.rs drives it.                *)
(*                                                                         *)
(* Coordinates are two's-complement integers of CoordBits bits (i64 in the *)
(* source).  `overflow_checks` is the build's arithmetic mode: with it an  *)
(* overflowing `+ 1` / `- 1` panics (cargo's dev profile), without it the  *)
(* result wraps (cargo's release profile).                                 *)
(***************************************************************************)
EXTENDS Integers, Sequences, FiniteSets, TLC

VARIABLES
  buffer_1,         \* World.buffer_1 : HashMap<Loc, CellType>
  buffer_2,         \* World.buffer_2 : HashMap<Loc, CellType>
  using_buffer_1,   \* World.using_buffer_1 : bool
  overflow_checks,  \* build mode: TRUE = overflow panics, FALSE = wraps
  panicked,         \* the thread panicked inside the last operation
  last_op,          \* name of the last operation called
  only_set,         \* no operation but set was called on the World so far
  combined,         \* the last call of CellType::combine, [a, b, out]
  nops,             \* number of operations called so far
  prev,             \* the World as it was when step was last called
  next_at_swap,     \* the next buffer when swap_buffers_and_clear was last entered
  branches,         \* colour-resolution branches taken by the last step
  other_order,      \* the active buffer the last step leaves with the opposite commit order
  start,            \* the active buffer the run started from
  data,             \* from_configuration: the text, a sequence of characters
  idx,              \* from_configuration: position of the next character
  row,              \* from_configuration: row counter
  col,              \* from_configuration: column counter
  result,           \* from_configuration: "none", "loading", "ok" or "err"
  err               \* from_configuration: the error returned, [c, row, col]

load_vars  == <<data, idx, row, col, result, err>>
vars == <<buffer_1, buffer_2, using_buffer_1, overflow_checks, panicked,
          last_op, only_set, combined, nops, prev, next_at_swap,
          branches, other_order, start, data, idx, row, col, result, err>>

----------------------------------------------------------------------------
(* Bounds of the model *)

\* width of a coordinate in bits (64 in the source)
CoordBits == 4
\* operations called in one run of Spec
MaxOps == 4
\* generations computed in one run of SpecLife
MaxSteps == 2
\* length of a configuration text in SpecConfig
MaxLen == 6
\* calls of CellType::combine in one run of SpecCombine
MaxCombines == 12

----------------------------------------------------------------------------
(* CellType *)

CellType == {"Dead", "Red", "Blue"}

is_alive(cell_type) ==
  CASE cell_type = "Dead" -> FALSE
    [] OTHER -> TRUE

\* combine with the first live operand winning instead of Red
combine_first_alive(a, b) ==
  CASE a = "Dead" -> b
    [] b = "Dead" -> a
    [] OTHER -> a

\* match (a, b): the arms in the order of the source, the first that matches
combine(a, b) ==
  CASE a = "Dead" -> b
    [] b = "Dead" -> a
    [] a = "Red" \/ b = "Red" -> "Red"
    [] a = "Blue" /\ b = "Blue" -> "Blue"

\* the value of `combined` before combine was called
NoCombine == [a |-> "Dead", b |-> "Dead", out |-> "Dead"]

----------------------------------------------------------------------------
(* Loc *)

CoordMin == -(2^(CoordBits - 1))
CoordMax == 2^(CoordBits - 1) - 1
Coord == CoordMin..CoordMax

Loc(r, c) == [row |-> r, col |-> c]
Locs == [row : Coord, col : Coord]

\* x + d in two's complement, as a build without overflow checks computes it
wrapping_add(x, d) == ((x + d - CoordMin) % (2^CoordBits)) + CoordMin

\* whether one of row + 1, row - 1, col + 1, col - 1 leaves the range
neighbors_overflows(loc) ==
  \/ loc.row + 1 > CoordMax
  \/ loc.row - 1 < CoordMin
  \/ loc.col + 1 > CoordMax
  \/ loc.col - 1 < CoordMin

neighbors(loc) ==
  << Loc(wrapping_add(loc.row,  1), wrapping_add(loc.col,  1)),
     Loc(wrapping_add(loc.row,  1), wrapping_add(loc.col, -1)),
     Loc(wrapping_add(loc.row, -1), wrapping_add(loc.col,  1)),
     Loc(wrapping_add(loc.row, -1), wrapping_add(loc.col, -1)),
     Loc(wrapping_add(loc.row,  1), loc.col),
     Loc(loc.row,                   wrapping_add(loc.col,  1)),
     Loc(wrapping_add(loc.row, -1), loc.col),
     Loc(loc.row,                   wrapping_add(loc.col, -1)) >>

\* Loc::neighbors panics in a build with overflow checks
neighbors_panics(checks, loc) == checks /\ neighbors_overflows(loc)

----------------------------------------------------------------------------
(* HashMap<Loc, CellType> *)

EmptyBuffer == [l \in {} |-> "Dead"]

\* HashMap::insert, and the get_mut / insert match of set
insert(buffer, loc, cell_type) ==
  [l \in (DOMAIN buffer) \cup {loc} |-> IF l = loc THEN cell_type ELSE buffer[l]]

\* HashMap::entry(loc).or_insert(cell_type)
or_insert(buffer, loc, cell_type) ==
  IF loc \in DOMAIN buffer THEN buffer ELSE insert(buffer, loc, cell_type)

\* HashMap::get(loc).unwrap_or(&CellType::Dead)
get_or_dead(buffer, loc) ==
  IF loc \in DOMAIN buffer THEN buffer[loc] ELSE "Dead"

\* the neighbour loop writing Dead over the entries that exist
add_neighbors_overwriting(buffer, ns) ==
  [l \in (DOMAIN buffer) \cup {ns[i] : i \in 1..Len(ns)} |->
     IF l \in {ns[i] : i \in 1..Len(ns)} THEN "Dead" ELSE buffer[l]]

\* for neighbor in loc.neighbors().iter() { buffer.entry(*neighbor).or_insert(Dead) }:
\* every entry of ns that is no key becomes a key holding Dead, the keys keep
\* their values
add_neighbors(buffer, ns) ==
  [l \in (DOMAIN buffer) \cup {ns[i] : i \in 1..Len(ns)} |->
     IF l \in DOMAIN buffer THEN buffer[l] ELSE "Dead"]

----------------------------------------------------------------------------
(* World *)

World(b1, b2, u) == [buffer_1 |-> b1, buffer_2 |-> b2, using_buffer_1 |-> u]

new == World(EmptyBuffer, EmptyBuffer, TRUE)

current_buffer(w) == IF w.using_buffer_1 THEN w.buffer_1 ELSE w.buffer_2

next_buffer(w) == IF w.using_buffer_1 THEN w.buffer_2 ELSE w.buffer_1

with_current_buffer(w, b) ==
  IF w.using_buffer_1 THEN [w EXCEPT !.buffer_1 = b] ELSE [w EXCEPT !.buffer_2 = b]

with_next_buffer(w, b) ==
  IF w.using_buffer_1 THEN [w EXCEPT !.buffer_2 = b] ELSE [w EXCEPT !.buffer_1 = b]

\* get reading the buffer that is being built
get_from_next(w, loc) == get_or_dead(next_buffer(w), loc)

get(w, loc) == get_or_dead(current_buffer(w), loc)

\* set without the neighbour loop
set_buffer_no_neighbors(checks, buffer, loc, cell_type) ==
  insert(buffer, loc, cell_type)

\* set with the neighbour loop writing Dead over the entries that exist
set_buffer_overwriting(checks, buffer, loc, cell_type) ==
  LET written == insert(buffer, loc, cell_type)
  IN IF is_alive(cell_type) /\ ~neighbors_panics(checks, loc)
       THEN add_neighbors_overwriting(written, neighbors(loc))
       ELSE written

\* the write rule of set on the buffer it is given; a panic of
\* loc.neighbors() leaves the buffer with loc written and no neighbour added
set_buffer(checks, buffer, loc, cell_type) ==
  LET written == insert(buffer, loc, cell_type)
  IN IF is_alive(cell_type) /\ ~neighbors_panics(checks, loc)
       THEN add_neighbors(written, neighbors(loc))
       ELSE written

set_panics(checks, loc, cell_type) ==
  is_alive(cell_type) /\ neighbors_panics(checks, loc)

\* set writing the buffer that get reads
set_into_current(checks, w, loc, cell_type) ==
  with_current_buffer(w, set_buffer(checks, current_buffer(w), loc, cell_type))

set(checks, w, loc, cell_type) ==
  with_next_buffer(w, set_buffer(checks, next_buffer(w), loc, cell_type))

\* set_cell_now without the neighbour loop
set_cell_now_buffer_no_neighbors(checks, buffer, loc, cell_type) ==
  insert(buffer, loc, cell_type)

\* the write rule of set_cell_now on the buffer it is given
set_cell_now_buffer(checks, buffer, loc, cell_type) ==
  LET written == insert(buffer, loc, cell_type)
  IN IF ~neighbors_panics(checks, loc)
       THEN add_neighbors(written, neighbors(loc))
       ELSE written

set_cell_now_panics(checks, loc, cell_type) == neighbors_panics(checks, loc)

set_cell_now(checks, w, loc, cell_type) ==
  with_current_buffer(w, set_cell_now_buffer(checks, current_buffer(w), loc, cell_type))

\* swap_buffers_and_clear without the clear
swap_without_clear(w) == [w EXCEPT !.using_buffer_1 = ~w.using_buffer_1]

swap_buffers_and_clear(w) ==
  LET toggled == [w EXCEPT !.using_buffer_1 = ~w.using_buffer_1]
  IN with_next_buffer(toggled, EmptyBuffer)

----------------------------------------------------------------------------
(* World::step *)

Range(seq) == {seq[i] : i \in 1..Len(seq)}

\* candidates without the neighbours of the live cells
candidates_live_only(w) ==
  {loc \in DOMAIN current_buffer(w) : is_alive(current_buffer(w)[loc])}

\* the candidate set: live cells of the active buffer and their neighbours
candidates(w) ==
  LET current == current_buffer(w)
      live == {loc \in DOMAIN current : is_alive(current[loc])}
  IN UNION {{loc} \cup Range(neighbors(loc)) : loc \in live}

\* red_neighbors / blue_neighbors: the tally over the 8 entries of loc.neighbors()
count_neighbors(buffer, loc, cell_type) ==
  LET ns == neighbors(loc)
  IN Cardinality({i \in 1..Len(ns) : get_or_dead(buffer, ns[i]) = cell_type})

\* will_be_alive with a live cell surviving on 3 neighbours only
will_be_alive_three_only(current_alive, total_alive_neighbors) ==
  total_alive_neighbors = 3

\* will_be_alive with a dead cell born on 2 neighbours as well
will_be_alive_birth_on_two(current_alive, total_alive_neighbors) ==
  total_alive_neighbors = 2 \/ total_alive_neighbors = 3

will_be_alive(current_alive, total_alive_neighbors) ==
  IF current_alive
    THEN total_alive_neighbors = 2 \/ total_alive_neighbors = 3
    ELSE total_alive_neighbors = 3

\* which arm of the colour resolution a birth takes
birth_branch(red_neighbors, blue_neighbors) ==
  IF red_neighbors > blue_neighbors THEN "red_majority"
  ELSE IF blue_neighbors > red_neighbors THEN "blue_majority"
  ELSE IF red_neighbors > 0 THEN "tie_red"
  ELSE "fallback_blue"

branch_type(branch) ==
  CASE branch = "red_majority" -> "Red"
    [] branch = "blue_majority" -> "Blue"
    [] branch = "tie_red" -> "Red"
    [] branch = "fallback_blue" -> "Blue"

\* next_type with a surviving cell turned Red
next_type_survivor_red(current_type, alive_next, red_neighbors, blue_neighbors) ==
  IF alive_next
    THEN IF is_alive(current_type)
           THEN "Red"
           ELSE branch_type(birth_branch(red_neighbors, blue_neighbors))
    ELSE "Dead"

next_type(current_type, alive_next, red_neighbors, blue_neighbors) ==
  IF alive_next
    THEN IF is_alive(current_type)
           THEN current_type
           ELSE branch_type(birth_branch(red_neighbors, blue_neighbors))
    ELSE "Dead"

\* one iteration of the evaluation loop, for candidate loc
evaluate(w, loc) ==
  LET current_type == get(w, loc)
      current_alive == is_alive(current_type)
      red_neighbors == count_neighbors(current_buffer(w), loc, "Red")
      blue_neighbors == count_neighbors(current_buffer(w), loc, "Blue")
      total_alive_neighbors == red_neighbors + blue_neighbors
      alive_next == will_be_alive(current_alive, total_alive_neighbors)
  IN [ current_alive |-> current_alive,
       will_be_alive |-> alive_next,
       next_type |-> next_type(current_type, alive_next, red_neighbors, blue_neighbors),
       born |-> alive_next /\ ~current_alive,
       branch |-> birth_branch(red_neighbors, blue_neighbors) ]

\* every candidate's result pushed to next_states
is_stored_always(alive_next, current_alive) == TRUE

\* whether a candidate's result is pushed to next_states
is_stored(alive_next, current_alive) == alive_next \/ current_alive

\* the evaluation loop: every candidate with its result
evaluated(w, cands) == {[loc |-> loc, e |-> evaluate(w, loc)] : loc \in cands}

\* next_states: the (loc, next_type) pairs pushed by the evaluation loop
next_states(evals) ==
  {[loc |-> p.loc, next_type |-> p.e.next_type] :
     p \in {q \in evals : is_stored(q.e.will_be_alive, q.e.current_alive)}}

\* the colour-resolution arms taken while evaluating the candidates
branches_taken(evals) == {p.e.branch : p \in {q \in evals : q.e.born}}

\* An iteration order of a hash set: the standard library leaves it
\* unspecified.  iter_order gives one enumeration; a step takes it or its reverse.
RECURSIVE iter_order(_)
iter_order(S) ==
  IF S = {} THEN <<>>
  ELSE LET x == CHOOSE x \in S : TRUE IN <<x>> \o iter_order(S \ {x})

reverse(seq) == [i \in 1..Len(seq) |-> seq[Len(seq) + 1 - i]]

\* for (loc, next_type) in next_states { self.set(&loc, next_type); }
RECURSIVE commit(_, _, _, _)
commit(checks, w, order, i) ==
  IF i > Len(order) THEN w
  ELSE commit(checks, set(checks, w, order[i].loc, order[i].next_type), order, i + 1)

\* loc.neighbors() panics for a live cell or a candidate on the edge of the
\* coordinate range, before anything is written
step_panics(checks, cands) ==
  checks /\ \E loc \in cands : neighbors_overflows(loc)

\* the World when step calls swap_buffers_and_clear
step_committed(checks, w, states, rev) ==
  commit(checks, w, IF rev THEN reverse(iter_order(states)) ELSE iter_order(states), 1)

step(checks, w, rev) ==
  IF step_panics(checks, candidates(w)) THEN w
  ELSE swap_buffers_and_clear(
         step_committed(checks, w, next_states(evaluated(w, candidates(w))), rev))

----------------------------------------------------------------------------
(* The engine driven through its public operations *)

world == World(buffer_1, buffer_2, using_buffer_1)

NoErr == [c |-> "", row |-> 0, col |-> 0]

\* coordinates the operations are called with: a row of three cells and a
\* corner of the coordinate range
InputLocs ==
  { Loc(0, -1), Loc(0, 0), Loc(0, 1), Loc(CoordMax, CoordMin) }

\* coordinates set is called with
SetLocs == { Loc(0, 0), Loc(CoordMax, CoordMin) }

\* the World becomes w, the operation op is recorded
Becomes(w, op, panics) ==
  /\ buffer_1' = w.buffer_1
  /\ buffer_2' = w.buffer_2
  /\ using_buffer_1' = w.using_buffer_1
  /\ panicked' = panics
  /\ last_op' = op
  /\ only_set' = (only_set /\ op = "set")
  /\ nops' = nops + 1
  /\ UNCHANGED <<overflow_checks, start, combined>>

Init ==
  /\ buffer_1 = new.buffer_1
  /\ buffer_2 = new.buffer_2
  /\ using_buffer_1 = new.using_buffer_1
  /\ overflow_checks \in BOOLEAN
  /\ panicked = FALSE
  /\ last_op = "new"
  /\ only_set = TRUE
  /\ combined = NoCombine
  /\ nops = 0
  /\ prev = new
  /\ next_at_swap = EmptyBuffer
  /\ branches = {}
  /\ other_order = EmptyBuffer
  /\ start = EmptyBuffer
  /\ data = <<>>
  /\ idx = 1
  /\ row = 0
  /\ col = 0
  /\ result = "none"
  /\ err = NoErr

Set(loc, cell_type) ==
  /\ nops < MaxOps
  /\ ~panicked
  /\ Becomes(set(overflow_checks, world, loc, cell_type),
             "set",
             set_panics(overflow_checks, loc, cell_type))
  /\ UNCHANGED <<prev, next_at_swap, branches, other_order>>
  /\ UNCHANGED load_vars

SetCellNow(loc, cell_type) ==
  /\ nops < MaxOps
  /\ ~panicked
  /\ Becomes(set_cell_now(overflow_checks, world, loc, cell_type),
             "set_cell_now",
             set_cell_now_panics(overflow_checks, loc, cell_type))
  /\ UNCHANGED <<prev, next_at_swap, branches, other_order>>
  /\ UNCHANGED load_vars

SwapBuffersAndClear ==
  /\ nops < MaxOps
  /\ ~panicked
  /\ Becomes(swap_buffers_and_clear(world), "swap_buffers_and_clear", FALSE)
  /\ next_at_swap' = next_buffer(world)
  /\ UNCHANGED <<prev, branches, other_order>>
  /\ UNCHANGED load_vars

\* step either panics before it writes anything, or commits next_states in
\* the order it iterates them in and swaps
DoStep ==
  /\ ~panicked
  /\ prev' = world
  /\ \E cands \in {candidates(world)} :
       \/ /\ step_panics(overflow_checks, cands)
          /\ Becomes(world, "step", TRUE)
          /\ UNCHANGED <<next_at_swap, branches, other_order>>
       \/ /\ ~step_panics(overflow_checks, cands)
          /\ \E evals \in {evaluated(world, cands)} :
               /\ branches' = branches_taken(evals)
               /\ \E forward \in {step_committed(overflow_checks, world,
                                                   next_states(evals), FALSE)} :
                    \E backward \in {step_committed(overflow_checks, world,
                                                     next_states(evals), TRUE)} :
                      \E rev \in BOOLEAN :
                        \E committed \in {IF rev THEN backward ELSE forward} :
                          /\ next_at_swap' = next_buffer(committed)
                          /\ other_order' = current_buffer(swap_buffers_and_clear(
                                               IF rev THEN forward ELSE backward))
                          /\ Becomes(swap_buffers_and_clear(committed), "step", FALSE)
  /\ UNCHANGED load_vars

Step == nops < MaxOps /\ DoStep

Next ==
  \/ \E loc \in SetLocs, cell_type \in CellType : Set(loc, cell_type)
  \/ \E loc \in InputLocs, cell_type \in CellType : SetCellNow(loc, cell_type)
  \/ SwapBuffersAndClear
  \/ Step

Spec == Init /\ [][Next]_vars

----------------------------------------------------------------------------
(* Generations of a painted pattern: the World is painted with set_cell_now, *)
(* as the mouse handler of main.rs does, and then only stepped.  The pattern *)
(* and its MaxSteps generations stay away from the edge of the coordinate   *)
(* range, so no coordinate overflows and both build modes compute the same;  *)
(* the build with overflow checks is the one modelled.                       *)

\* the cells a pattern is painted on
Window == {Loc(r, c) : r \in -1..1, c \in -1..1}

\* set_cell_now called for every live cell of the pattern
RECURSIVE paint(_, _, _, _, _)
paint(checks, w, pattern, order, i) ==
  IF i > Len(order) THEN w
  ELSE paint(checks, set_cell_now(checks, w, order[i], pattern[order[i]]), pattern, order, i + 1)

painted(checks, pattern) ==
  paint(checks, new, pattern,
        iter_order({loc \in DOMAIN pattern : is_alive(pattern[loc])}), 1)

LifeInit ==
  /\ overflow_checks = TRUE
  /\ \E pattern \in [Window -> CellType] :
       /\ prev = painted(overflow_checks, pattern)
       /\ buffer_1 = prev.buffer_1
       /\ buffer_2 = prev.buffer_2
       /\ using_buffer_1 = prev.using_buffer_1
       /\ start = current_buffer(prev)
  /\ panicked = FALSE
  /\ last_op = "set_cell_now"
  /\ only_set = FALSE
  /\ combined = NoCombine
  /\ nops = 0
  /\ next_at_swap = EmptyBuffer
  /\ branches = {}
  /\ other_order = EmptyBuffer
  /\ data = <<>>
  /\ idx = 1
  /\ row = 0
  /\ col = 0
  /\ result = "none"
  /\ err = NoErr

LifeStep == nops < MaxSteps /\ DoStep

LifeNext == LifeStep

SpecLife == LifeInit /\ [][LifeNext]_vars

----------------------------------------------------------------------------
(* World::from_configuration, called as main.rs calls it: the text is read *)
(* character by character, and swap_buffers_and_clear follows a success.   *)

\* the markers main passes
dead_char == "."
alive_char == "*"

\* the characters a text is made of: the markers, the line terminator, the
\* carriage return and a character that is none of them
Chars == {dead_char, alive_char, "\n", "\r", "X"}

Texts == UNION {[1..n -> Chars] : n \in 0..MaxLen}

\* which arm of the if / else-if chain a character takes
classify(c) ==
  IF c = dead_char THEN "dead"
  ELSE IF c = alive_char THEN "alive"
  ELSE IF c = "\n" THEN "newline"
  ELSE IF c = "\r" THEN "carriage_return"
  ELSE "invalid"

\* the row and column counters after the arm
next_row(kind, r) == IF kind = "newline" THEN r + 1 ELSE r

\* next_col with the carriage return advancing the column
next_col_counting_cr(kind, c) ==
  IF kind \in {"dead", "alive", "carriage_return"} THEN c + 1
  ELSE IF kind = "newline" THEN 0
  ELSE c

next_col(kind, c) ==
  IF kind \in {"dead", "alive"} THEN c + 1
  ELSE IF kind = "newline" THEN 0
  ELSE c

\* the cell type a marker writes
marker_type(kind) == IF kind = "alive" THEN "Red" ELSE "Dead"

\* the error with row and column exchanged
parse_error_col_row(c, r, cl) == [c |-> c, row |-> cl, col |-> r]

\* Err(format!("Invalid char '{}' at {}, {}", c, row, col))
parse_error(c, r, cl) == [c |-> c, row |-> r, col |-> cl]

ConfigInit ==
  /\ buffer_1 = new.buffer_1
  /\ buffer_2 = new.buffer_2
  /\ using_buffer_1 = new.using_buffer_1
  /\ overflow_checks \in BOOLEAN
  /\ panicked = FALSE
  /\ last_op = "new"
  /\ only_set = TRUE
  /\ combined = NoCombine
  /\ nops = 0
  /\ prev = new
  /\ next_at_swap = EmptyBuffer
  /\ branches = {}
  /\ other_order = EmptyBuffer
  /\ start = EmptyBuffer
  /\ data \in Texts
  /\ idx = 1
  /\ row = 0
  /\ col = 0
  /\ result = "loading"
  /\ err = NoErr

\* one iteration of `for c in data.chars()`: a marker is written through set
LoadMarker ==
  /\ result = "loading"
  /\ idx <= Len(data)
  /\ classify(data[idx]) \in {"dead", "alive"}
  /\ Becomes(set(overflow_checks, world, Loc(row, col), marker_type(classify(data[idx]))),
             "set",
             set_panics(overflow_checks, Loc(row, col), marker_type(classify(data[idx]))))
  /\ row' = next_row(classify(data[idx]), row)
  /\ col' = next_col(classify(data[idx]), col)
  /\ idx' = idx + 1
  /\ UNCHANGED <<data, result, err, prev, next_at_swap, branches, other_order>>

\* one iteration for a line terminator or a carriage return: nothing is written
LoadSkip ==
  /\ result = "loading"
  /\ idx <= Len(data)
  /\ classify(data[idx]) \in {"newline", "carriage_return"}
  /\ row' = next_row(classify(data[idx]), row)
  /\ col' = next_col(classify(data[idx]), col)
  /\ idx' = idx + 1
  /\ UNCHANGED <<data, result, err>>
  /\ UNCHANGED <<buffer_1, buffer_2, using_buffer_1, overflow_checks, panicked,
                 last_op, only_set, combined, nops, prev,
                 next_at_swap, branches, other_order, start>>

\* any other character: return Err, the loop ends here
LoadInvalid ==
  /\ result = "loading"
  /\ idx <= Len(data)
  /\ classify(data[idx]) = "invalid"
  /\ result' = "Err"
  /\ err' = parse_error(data[idx], row, col)
  /\ UNCHANGED <<data, idx, row, col>>
  /\ UNCHANGED <<buffer_1, buffer_2, using_buffer_1, overflow_checks, panicked,
                 last_op, only_set, combined, nops, prev,
                 next_at_swap, branches, other_order, start>>

\* the text is exhausted: return Ok(world)
LoadReturn ==
  /\ result = "loading"
  /\ idx > Len(data)
  /\ result' = "Ok"
  /\ UNCHANGED <<data, idx, row, col, err>>
  /\ UNCHANGED <<buffer_1, buffer_2, using_buffer_1, overflow_checks, panicked,
                 last_op, only_set, combined, nops, prev,
                 next_at_swap, branches, other_order, start>>

\* main: world.swap_buffers_and_clear() on the World that was returned
MainSwap ==
  /\ result = "Ok"
  /\ last_op # "swap_buffers_and_clear"
  /\ ~panicked
  /\ Becomes(swap_buffers_and_clear(world), "swap_buffers_and_clear", FALSE)
  /\ next_at_swap' = next_buffer(world)
  /\ UNCHANGED <<prev, branches, other_order>>
  /\ UNCHANGED load_vars

ConfigNext ==
  \/ LoadMarker
  \/ LoadSkip
  \/ LoadInvalid
  \/ LoadReturn
  \/ MainSwap

SpecConfig == ConfigInit /\ [][ConfigNext]_vars

----------------------------------------------------------------------------
(* CellType::combine called on its own: nothing in the engine calls it *)

CombineInit ==
  /\ buffer_1 = new.buffer_1
  /\ buffer_2 = new.buffer_2
  /\ using_buffer_1 = new.using_buffer_1
  /\ overflow_checks = TRUE
  /\ panicked = FALSE
  /\ last_op = "new"
  /\ only_set = TRUE
  /\ combined = NoCombine
  /\ nops = 0
  /\ prev = new
  /\ next_at_swap = EmptyBuffer
  /\ branches = {}
  /\ other_order = EmptyBuffer
  /\ start = EmptyBuffer
  /\ data = <<>>
  /\ idx = 1
  /\ row = 0
  /\ col = 0
  /\ result = "none"
  /\ err = NoErr

\* CellType::combine(a, b)
Combine(a, b) ==
  /\ nops < MaxCombines
  /\ combined' = [a |-> a, b |-> b, out |-> combine(a, b)]
  /\ last_op' = "combine"
  /\ nops' = nops + 1
  /\ UNCHANGED <<buffer_1, buffer_2, using_buffer_1, overflow_checks, panicked,
                 only_set, prev, next_at_swap, branches, other_order, start>>
  /\ UNCHANGED load_vars

CombineNext == \E a \in CellType, b \in CellType : Combine(a, b)

SpecCombine == CombineInit /\ [][CombineNext]_vars

----------------------------------------------------------------------------
(* Properties *)

Alive == {"Red", "Blue"}

\* the 8 cells around loc, in the arithmetic of the coordinates
Moore(loc) ==
  {Loc(wrapping_add(loc.row, dr), wrapping_add(loc.col, dc)) :
     dr \in {-1, 0, 1}, dc \in {-1, 0, 1}} \ {loc}

AliveIn(buffer) == {loc \in DOMAIN buffer : buffer[loc] \in Alive}

CountIn(buffer, loc, types) ==
  Cardinality({n \in Moore(loc) : n \in DOMAIN buffer /\ buffer[n] \in types})

\* the last operation was a step that returned
StepDone == last_op = "step" /\ ~panicked

\* the active buffer step started from, and the one it left
Pre == current_buffer(prev)
Post == current_buffer(world)

\* C1: after a step on a World with an empty next buffer, every cell that was
\* alive with 2 or 3 live neighbours is alive with the colour it had, and
\* every cell that was alive with another number of live neighbours reads Dead.
C1_Survival ==
  (StepDone /\ next_buffer(prev) = EmptyBuffer) =>
    \A loc \in AliveIn(Pre) :
      IF CountIn(Pre, loc, Alive) \in {2, 3}
        THEN get(world, loc) = Pre[loc]
        ELSE get(world, loc) = "Dead"

C1_Witness ==
  /\ StepDone
  /\ next_buffer(prev) = EmptyBuffer
  /\ \E a, b, c \in AliveIn(Pre) :
       /\ CountIn(Pre, a, Alive) = 3 /\ Pre[a] = "Blue" /\ get(world, a) = "Blue"
       /\ CountIn(Pre, b, Alive) = 5 /\ Pre[b] = "Red" /\ get(world, b) = "Dead"
       /\ CountIn(Pre, c, Alive) = 8 /\ get(world, c) = "Dead"

\* the cells that are alive or have a live neighbour: every other coordinate
\* has no live neighbour
Near(buffer) == AliveIn(buffer) \cup UNION {Moore(loc) : loc \in AliveIn(buffer)}

\* C2: after a step on a World with an empty next buffer, a coordinate that
\* was Dead (a Dead entry or no entry) is alive exactly if 3 of its 8
\* neighbours were alive; the coordinates without a live neighbour read Dead.
C2_Birth ==
  (StepDone /\ next_buffer(prev) = EmptyBuffer) =>
    /\ \A loc \in Near(Pre) \cup DOMAIN Pre \cup DOMAIN Post :
         get_or_dead(Pre, loc) = "Dead" =>
           (get(world, loc) \in Alive <=> CountIn(Pre, loc, Alive) = 3)
    /\ AliveIn(Post) \subseteq Near(Pre)

C2_Witness ==
  /\ StepDone
  /\ next_buffer(prev) = EmptyBuffer
  /\ \E a, b \in DOMAIN Pre :
       /\ Pre[a] = "Dead" /\ CountIn(Pre, a, Alive) = 3 /\ get(world, a) \in Alive
       /\ Pre[b] = "Dead" /\ CountIn(Pre, b, Alive) = 4 /\ get(world, b) = "Dead"
  /\ \E c \in (DOMAIN Post) \ (DOMAIN Pre) : get(world, c) = "Dead"

\* C3: a cell born in a step has 3 live neighbours of which a strict majority
\* has the colour it takes, and the two tie arms of the colour resolution are
\* not taken.
C3_Majority ==
  StepDone =>
    /\ branches \subseteq {"red_majority", "blue_majority"}
    /\ \A loc \in AliveIn(Post) :
         get_or_dead(Pre, loc) = "Dead" =>
           LET red == CountIn(Pre, loc, {"Red"})
               blue == CountIn(Pre, loc, {"Blue"})
           IN /\ red + blue = 3
              /\ red # blue
              /\ Post[loc] = IF red > blue THEN "Red" ELSE "Blue"

C3_Witness ==
  /\ StepDone
  /\ branches = {"red_majority", "blue_majority"}
  /\ \E a, b \in AliveIn(Post) :
       /\ get_or_dead(Pre, a) = "Dead" /\ CountIn(Pre, a, {"Red"}) = 2 /\ Post[a] = "Red"
       /\ get_or_dead(Pre, b) = "Dead" /\ CountIn(Pre, b, {"Red"}) = 1 /\ Post[b] = "Blue"

\* C4: after any sequence of set, set_cell_now, swap_buffers_and_clear and
\* step that returned, every live entry of either buffer has its 8 neighbours
\* as keys of the same buffer.
C4_Materialised ==
  ~panicked =>
    \A buffer \in {buffer_1, buffer_2} :
      \A loc \in AliveIn(buffer) : Moore(loc) \subseteq DOMAIN buffer

C4_Witness ==
  /\ StepDone
  /\ \E loc \in AliveIn(Post) : get_or_dead(Pre, loc) = "Dead"
  /\ \E loc \in AliveIn(Post) : get_or_dead(Pre, loc) \in Alive

\* C5: when swap_buffers_and_clear has run, alone or at the end of step, the
\* active buffer is the next buffer as it was when it was called and the next
\* buffer is empty.
C5_Swap ==
  (last_op \in {"swap_buffers_and_clear", "step"} /\ ~panicked) =>
    /\ current_buffer(world) = next_at_swap
    /\ next_buffer(world) = EmptyBuffer

C5_Witness ==
  /\ last_op = "swap_buffers_and_clear"
  /\ ~panicked
  /\ AliveIn(current_buffer(world)) # {}
  /\ current_buffer(world) = next_at_swap
  /\ next_buffer(world) = EmptyBuffer

\* a 2x2 block of one colour with top left cell p, and the 12 cells around it
BlockBuffer(p, colour) ==
  [loc \in {Loc(p.row + dr, p.col + dc) : dr \in -1..2, dc \in -1..2} |->
     IF loc.row - p.row \in {0, 1} /\ loc.col - p.col \in {0, 1} THEN colour ELSE "Dead"]

IsBlock(buffer) ==
  \E r \in -1..0, c \in -1..0, colour \in Alive : buffer = BlockBuffer(Loc(r, c), colour)

\* C6: a run that starts from a 2x2 block of one colour and its 12 Dead
\* neighbours has that same active buffer after every number of steps.
C6_StillLife ==
  IsBlock(start) => (~panicked /\ current_buffer(world) = start)

C6_Witness ==
  /\ IsBlock(start)
  /\ start[Loc(0, 0)] = "Blue"
  /\ StepDone
  /\ nops = MaxSteps
  /\ current_buffer(world) = start

\* buffer with the absent cells around loc added as Dead
WithDeadAround(buffer, loc) ==
  [l \in (DOMAIN buffer) \cup Moore(loc) |-> IF l \in DOMAIN buffer THEN buffer[l] ELSE "Dead"]

\* C7, as claimed: set_cell_now produces on a buffer what set produces on it,
\* for every coordinate and every cell type.
C7_SameAsSet ==
  \A buffer \in {buffer_1, buffer_2} :
    \A loc \in InputLocs, cell_type \in CellType :
      /\ set_cell_now_buffer(overflow_checks, buffer, loc, cell_type)
           = set_buffer(overflow_checks, buffer, loc, cell_type)
      /\ set_cell_now_panics(overflow_checks, loc, cell_type)
           = set_panics(overflow_checks, loc, cell_type)

\* C7, amended: for Red and Blue set_cell_now produces what set produces (and
\* fails where set fails); for Dead, a set_cell_now that returns produces
\* what set produces with the absent neighbours added as Dead.
C7_SameAsSetWhenAlive ==
  \A buffer \in {buffer_1, buffer_2} :
    \A loc \in InputLocs :
      /\ \A cell_type \in Alive :
           /\ set_cell_now_buffer(overflow_checks, buffer, loc, cell_type)
                = set_buffer(overflow_checks, buffer, loc, cell_type)
           /\ set_cell_now_panics(overflow_checks, loc, cell_type)
                = set_panics(overflow_checks, loc, cell_type)
      /\ ~set_cell_now_panics(overflow_checks, loc, "Dead") =>
           set_cell_now_buffer(overflow_checks, buffer, loc, "Dead")
             = WithDeadAround(set_buffer(overflow_checks, buffer, loc, "Dead"), loc)

C7_Witness ==
  /\ ~panicked
  /\ \E loc \in InputLocs :
       /\ AliveIn(current_buffer(world)) \cap Moore(loc) # {}
       /\ Moore(loc) \ DOMAIN current_buffer(world) # {}
       /\ set_cell_now_buffer(overflow_checks, current_buffer(world), loc, "Dead")
            # set_buffer(overflow_checks, current_buffer(world), loc, "Dead")
       /\ set_cell_now_buffer(overflow_checks, current_buffer(world), loc, "Blue")
            = set_buffer(overflow_checks, current_buffer(world), loc, "Blue")

\* the characters from_configuration accepts
ValidChars == {".", "*", "\n", "\r"}
ValidText(text) == \A i \in 1..Len(text) : text[i] \in ValidChars

\* the row and the column of the character at position i: the line
\* terminators before it, and the markers between the last of them and it
RowAt(text, i) == Cardinality({j \in 1..(i - 1) : text[j] = "\n"})
LineStart(text, i) ==
  LET nl == {j \in 1..(i - 1) : text[j] = "\n"}
  IN IF nl = {} THEN 1 ELSE 1 + CHOOSE j \in nl : \A k \in nl : k <= j
ColAt(text, i) ==
  Cardinality({j \in LineStart(text, i)..(i - 1) : text[j] \in {".", "*"}})
LocAt(text, i) == Loc(RowAt(text, i), ColAt(text, i))

\* the buffer a text describes
ExpectedBuffer(text) ==
  LET red == {LocAt(text, i) : i \in {j \in 1..Len(text) : text[j] = "*"}}
      dead == {LocAt(text, i) : i \in {j \in 1..Len(text) : text[j] = "."}}
  IN [loc \in red \cup dead \cup UNION {Moore(l) : l \in red} |->
        IF loc \in red THEN "Red" ELSE "Dead"]

\* the coordinates a text of at most MaxLen characters can write to
ProbeLocs == {Loc(r, c) : r \in -1..(MaxLen + 1), c \in -1..(MaxLen + 1)}

\* C8: for a text of markers, line terminators and carriage returns loading
\* does not fail, get returns Dead everywhere until swap_buffers_and_clear is
\* called, and after it the active buffer holds Red at the alive markers,
\* Dead at the dead markers and Dead at the other neighbours of the Red cells.
C8_Loaded ==
  ValidText(data) =>
    /\ result # "Err"
    /\ ~panicked
    /\ last_op # "swap_buffers_and_clear" =>
         \A loc \in ProbeLocs \cup DOMAIN buffer_1 \cup DOMAIN buffer_2 :
           get(world, loc) = "Dead"
    /\ last_op = "swap_buffers_and_clear" =>
         current_buffer(world) = ExpectedBuffer(data)

C8_Witness ==
  /\ data = <<"*", ".", "\n", ".", "*", "\n">>
  /\ result = "Ok"
  /\ last_op = "swap_buffers_and_clear"
  /\ get(world, Loc(0, 0)) = "Red"
  /\ get(world, Loc(1, 1)) = "Red"
  /\ get(world, Loc(0, 1)) = "Dead"
  /\ get(world, Loc(1, 0)) = "Dead"
  /\ Loc(-1, -1) \in DOMAIN current_buffer(world)
  /\ Loc(2, 2) \in DOMAIN current_buffer(world)

\* the position of the first character from_configuration rejects, 0 if none
FirstInvalid(text) ==
  LET bad == {i \in 1..Len(text) : text[i] \notin ValidChars}
  IN IF bad = {} THEN 0 ELSE CHOOSE i \in bad : \A k \in bad : i <= k

\* C9: loading fails exactly at the first character that is no marker, line
\* terminator or carriage return; the error holds that character and the row
\* and column counters there, the loop does not go on, and no World is handed
\* to the caller.
C9_ParseError ==
  /\ result = "Err" =>
       /\ idx = FirstInvalid(data)
       /\ err = [c |-> data[idx], row |-> RowAt(data, idx), col |-> ColAt(data, idx)]
       /\ row = err.row
       /\ col = err.col
       /\ last_op # "swap_buffers_and_clear"
  /\ result = "Ok" => FirstInvalid(data) = 0
  /\ FirstInvalid(data) # 0 => idx <= FirstInvalid(data)

C9_Witness ==
  /\ data = <<"*", "X", "\n">>
  /\ result = "Err"
  /\ err = [c |-> "X", row |-> 0, col |-> 1]
  /\ idx = 2

\* C10, as claimed: no operation fails, whatever the coordinate.
C10_Total == ~panicked

\* coordinates read back: those the operations are called with, the cells
\* around them, and a cell away from all of them
ReadLocs ==
  InputLocs \cup UNION {Moore(loc) : loc \in InputLocs} \cup {Loc(CoordMin, CoordMax)}

\* C11: get reads Dead at every coordinate that is not a key of the active
\* buffer; and while nothing but set has been called on a new World, get
\* reads Dead at every coordinate.
C11_SparseDefault ==
  /\ \A loc \in (ReadLocs \cup DOMAIN buffer_1 \cup DOMAIN buffer_2)
                  \ DOMAIN current_buffer(world) :
       get(world, loc) = "Dead"
  /\ only_set =>
       \A loc \in ReadLocs \cup DOMAIN buffer_1 \cup DOMAIN buffer_2 :
         get(world, loc) = "Dead"

C11_Witness ==
  /\ only_set
  /\ last_op = "set"
  /\ \E loc \in AliveIn(next_buffer(world)) :
       /\ loc \notin DOMAIN current_buffer(world)
       /\ get(world, loc) = "Dead"

\* C12: CellType::combine returns a cell type for each of the 9 pairs, gives
\* the same result with its operands exchanged, returns the other operand
\* when one is Dead, returns Red when one operand is Red and the other is
\* alive, and returns Blue for (Blue, Blue).
C12_Combine ==
  last_op = "combine" =>
    /\ combined.out \in CellType
    /\ combine(combined.b, combined.a) = combined.out
    /\ combined.a = "Dead" => combined.out = combined.b
    /\ combined.b = "Dead" => combined.out = combined.a
    /\ ( \/ (combined.a = "Red" /\ combined.b \in Alive)
         \/ (combined.b = "Red" /\ combined.a \in Alive) ) => combined.out = "Red"
    /\ (combined.a = "Blue" /\ combined.b = "Blue") => combined.out = "Blue"

C12_Witness ==
  /\ last_op = "combine"
  /\ combined.a = "Blue"
  /\ combined.b = "Red"
  /\ combined.out = "Red"

\* C13: the active buffer a step leaves is the same, entry for entry, in
\* whichever order the candidates were evaluated and their (loc, next_type)
\* pairs committed through set: it is the buffer the step leaves when it
\* takes the pairs in the opposite order.
C13_OrderIndependent ==
  StepDone => Post = other_order

\* a step that committed two live cells next to each other: each commit
\* materialises the other's coordinate
C13_Witness ==
  /\ StepDone
  /\ \E a \in AliveIn(Post) : \E b \in AliveIn(Post) \cap Moore(a) :
       /\ Pre[a] = "Dead"
       /\ Post[b] = "Blue"

\* C14: the active buffer a step leaves is determined by the active buffer it
\* started from: it is the buffer the step leaves on the World that has the
\* same active buffer and an empty next buffer, whatever set had put into the
\* next buffer since the last swap.
C14_ActiveAlone ==
  StepDone =>
    \E rev \in BOOLEAN :
      Post = current_buffer(step(overflow_checks, with_next_buffer(prev, EmptyBuffer), rev))

\* C15: after a step on a World with an empty next buffer, the keys of the
\* active buffer are exactly the cells alive after the step, the 8 cells
\* around each of them, and the cells that were alive before and are not
\* after; and a step from an active buffer without a live cell leaves the
\* active buffer empty.
C15_Frontier ==
  (StepDone /\ next_buffer(prev) = EmptyBuffer) =>
    /\ DOMAIN Post = AliveIn(Post)
                       \cup UNION {Moore(loc) : loc \in AliveIn(Post)}
                       \cup (AliveIn(Pre) \ AliveIn(Post))
    /\ AliveIn(Pre) = {} => Post = EmptyBuffer

\* a step after which cells live on, a cell that died away from them is a
\* key, and a candidate that was and stays Dead is none
C15_Witness ==
  /\ StepDone
  /\ next_buffer(prev) = EmptyBuffer
  /\ AliveIn(Post) # {}
  /\ \E loc \in AliveIn(Pre) \ AliveIn(Post) :
       /\ Moore(loc) \cap AliveIn(Post) = {}
       /\ loc \in DOMAIN Post
  /\ \E loc \in candidates(prev) \ AliveIn(Pre) : loc \notin DOMAIN Post

\* C16: a call of set leaves the active buffer as it was, key for key and
\* value for value, so get reads what it read before; a call of set_cell_now
\* leaves the next buffer as it was.
C16_Separation ==
  [][ /\ last_op' = "set" => current_buffer(world)' = current_buffer(world)
      /\ last_op' = "set_cell_now" => next_buffer(world)' = next_buffer(world) ]_vars

\* set was called on a World whose two buffers hold different live cells
C16_Witness ==
  /\ last_op = "set"
  /\ AliveIn(current_buffer(world)) # {}
  /\ AliveIn(next_buffer(world)) # {}
  /\ AliveIn(current_buffer(world)) # AliveIn(next_buffer(world))

\* what a write at loc leaves of a buffer: every key that was there is still
\* there, every key other than loc holds the value it held, and a key that was
\* not there is loc or one of the 8 cells around loc holding Dead
WriteFrame(before, after, loc) ==
  /\ DOMAIN before \subseteq DOMAIN after
  /\ \A k \in DOMAIN before \ {loc} : after[k] = before[k]
  /\ \A k \in DOMAIN after \ DOMAIN before :
       \/ k = loc
       \/ k \in Moore(loc) /\ after[k] = "Dead"

====
